---- MODULE Spec2Model ----
(***************************************************************************)
(* Broadcast-aware elementwise binary operators of rust-autograd           *)
(* (src/src/ops/binary_ops.rs): the forward evaluators AddOp, SubOp,       *)
(* MulOp, DivOp, the gradient reducer PreprocessBinOpGrad, the gradient    *)
(* expander PreprocessBinOpGradGrad, and the grad steps that wire them     *)
(* into the graph.                                                         *)
(*                                                                         *)
(* Arrays are records [shape, data]: shape is a sequence of axis sizes,    *)
(* data the elements in row-major order.  Elements are exact rationals     *)
(* <<n, d>> in lowest terms with d > 0 (rounding of T: Float is not        *)
(* modelled).  Axes and linear indices are 0-based as in the source;       *)
(* sequences are 1-based.                                                  *)
(***************************************************************************)
EXTENDS Integers, Sequences, FiniteSets, TLC

\* Bounds of the model.
MaxRank == 2
MaxDim == 3
MaxGrads == 3

VARIABLES
    lib,     \* the ndarray build linked in: "one_sided" or "co_broadcast"
    cc,      \* the compute context of the latest compute call
    upstream, \* the compute context whose output is cc's first input, if any
    graph,   \* the graph: the sequence (arena) of its nodes
    gc,      \* the gradient-build context of the latest grad call
    ngrads   \* the number of grad calls made on the graph

vars == <<lib, cc, upstream, graph, gc, ngrads>>

----------------------------------------------------------------------------
\* Exact rational elements.

Abs(n) == IF n < 0 THEN -n ELSE n

RECURSIVE GCD(_, _)
GCD(a, b) == IF b = 0 THEN a ELSE GCD(b, a % b)

\* n/d in lowest terms with a positive denominator; division by zero gives
\* the not-a-number marker <<0, 0>>.
Norm(n, d) ==
    IF d = 0 THEN <<0, 0>>
    ELSE LET g == GCD(Abs(n), Abs(d))
             s == IF d < 0 THEN -1 ELSE 1
         IN  <<(s * n) \div g, (s * d) \div g>>

R(n) == <<n, 1>>
Zero == R(0)
One == R(1)

RAdd(a, b) == Norm(a[1] * b[2] + b[1] * a[2], a[2] * b[2])
RSub(a, b) == Norm(a[1] * b[2] - b[1] * a[2], a[2] * b[2])
RMul(a, b) == Norm(a[1] * b[1], a[2] * b[2])
RDiv(a, b) == Norm(a[1] * b[2], a[2] * b[1])
RNeg(a) == <<-a[1], a[2]>>

\* The elementwise binary operation named by bin_op.
Apply(bin_op, a, b) ==
    CASE bin_op = "+" -> RAdd(a, b)
      [] bin_op = "-" -> RSub(a, b)
      [] bin_op = "*" -> RMul(a, b)
      [] bin_op = "/" -> RDiv(a, b)

RECURSIVE SumSeq(_)
SumSeq(s) == IF s = <<>> THEN Zero ELSE RAdd(s[1], SumSeq(Tail(s)))

----------------------------------------------------------------------------
\* Shapes and row-major indexing.

RECURSIVE Prod(_)
Prod(s) == IF s = <<>> THEN 1 ELSE s[1] * Prod(Tail(s))

\* Row-major stride of 1-based axis i.
Stride(shape, i) == Prod(SubSeq(shape, i + 1, Len(shape)))

\* Coordinate along 1-based axis i of the element at 0-based linear index k.
Coord(k, shape, i) == (k \div Stride(shape, i)) % shape[i]

RECURSIVE RavelFrom(_, _, _)
RavelFrom(idx, shape, i) ==
    IF i > Len(shape) THEN 0
    ELSE idx[i] * Stride(shape, i) + RavelFrom(idx, shape, i + 1)

\* 0-based linear index of multi-index idx.
Ravel(idx, shape) == RavelFrom(idx, shape, 1)

Unravel(k, shape) == [i \in 1..Len(shape) |-> Coord(k, shape, i)]

Arr(shape, data) == [shape |-> shape, data |-> data]

\* Vec::insert(pos, v) with 0-based pos (requires pos <= len).
InsertAt(s, pos, v) == SubSeq(s, 1, pos) \o <<v>> \o SubSeq(s, pos + 1, Len(s))

\* The sequence s without its 0-based position pos.
RemoveAt(s, pos) == SubSeq(s, 1, pos) \o SubSeq(s, pos + 2, Len(s))

Max(a, b) == IF a > b THEN a ELSE b

\* s padded on the left with 1s to rank n.
PadLeft(s, n) == [i \in 1..n |-> IF i <= n - Len(s) THEN 1 ELSE s[i - (n - Len(s))]]

\* The standard broadcasting rule between two shapes: trailing alignment,
\* a size-1 axis stretches, missing leading axes count as 1.
Compatible(s0, s1) ==
    LET n == Max(Len(s0), Len(s1))
        a == PadLeft(s0, n)
        b == PadLeft(s1, n)
    IN  \A i \in 1..n : a[i] = b[i] \/ a[i] = 1 \/ b[i] = 1

BroadcastShape(s0, s1) ==
    LET n == Max(Len(s0), Len(s1))
        a == PadLeft(s0, n)
        b == PadLeft(s1, n)
    IN  [i \in 1..n |-> IF a[i] = 1 THEN b[i] ELSE a[i]]

----------------------------------------------------------------------------
\* The ndarray operations the source calls.

NoArr == Arr(<<>>, <<>>)

\* What a call leaves in its compute context: the outputs appended, or the
\* panic that aborted it.
Output(a) == [outputs |-> <<a>>, panic |-> ""]
Panic(msg) == [outputs |-> <<>>, panic |-> msg]

\* Intermediate results: a value or a panic.
Ok(a) == [arr |-> a, panic |-> ""]
Err(msg) == [arr |-> NoArr, panic |-> msg]

\* ArrayBase::broadcast: a shape broadcasts to a target of at least its rank
\* when, aligned at the trailing axis, each axis equals the target's or is 1.
CanBroadcastTo(from, to) ==
    /\ Len(from) <= Len(to)
    /\ \A i \in 1..Len(from) :
           from[i] = to[i + Len(to) - Len(from)] \/ from[i] = 1

BroadcastTo(a, to) ==
    LET from == a.shape
        off == Len(to) - Len(from)
        src(k) == Ravel([i \in 1..Len(from) |->
                            IF from[i] = 1 THEN 0 ELSE Coord(k, to, i + off)],
                        from)
    IN  Arr(to, [k \in 1..Prod(to) |-> a.data[src(k - 1) + 1]])

\* ArrayBase::map / mapv with the rational function given pointwise.
MapLeft(bin_op, elem, a) ==
    Arr(a.shape, [k \in 1..Len(a.data) |-> Apply(bin_op, elem, a.data[k])])
MapRight(bin_op, a, elem) ==
    Arr(a.shape, [k \in 1..Len(a.data) |-> Apply(bin_op, a.data[k], elem)])

\* Indexing with the empty index IxDyn(&[]): defined for rank 0 only.
IndexEmpty(a) == IF Len(a.shape) = 0 THEN Ok(a) ELSE Err("index out of bounds")

\* `lhs bin_op rhs` on two array references.  ndarray before 0.15 broadcasts
\* only the right operand to the left operand's shape; from 0.15 on the two
\* operands are broadcast to their common shape.
ArrBinOp(bin_op, lhs, rhs, l) ==
    LET to == IF l = "one_sided" THEN lhs.shape
              ELSE BroadcastShape(lhs.shape, rhs.shape)
        fits == IF l = "one_sided" THEN CanBroadcastTo(rhs.shape, lhs.shape)
                ELSE Compatible(lhs.shape, rhs.shape)
        a == BroadcastTo(lhs, to)
        b == BroadcastTo(rhs, to)
    IN  IF fits
        THEN Ok(Arr(to, [k \in 1..Prod(to) |-> Apply(bin_op, a.data[k], b.data[k])]))
        ELSE Err("could not broadcast")

\* ArrayBase::fold_axis(Axis(axis), zero, +): sums along the 0-based axis
\* and removes it.
FoldAxis(a, axis) ==
    LET s == a.shape
        ns == RemoveAt(s, axis)
        elems(k) == [t \in 1..s[axis + 1] |->
                        a.data[Ravel(InsertAt(Unravel(k, ns), axis, t - 1), s) + 1]]
    IN  IF axis >= Len(s) THEN Err("axis out of bounds")
        ELSE Ok(Arr(ns, [k \in 1..Prod(ns) |-> SumSeq(elems(k - 1))]))

----------------------------------------------------------------------------
\* crate::ndarray_ext helpers.

\* as_shape: the elements of a shape array as axis sizes.
as_shape(x) == [i \in 1..Len(x.data) |-> x.data[i][1] \div x.data[i][2]]

\* The shape array holding shape s.
ShapeArr(s) == Arr(<<Len(s)>>, [i \in 1..Len(s) |-> R(s[i])])

is_scalar_shape(shape) == shape = <<>>

\* expand_dims / expand_dims_view: insert a size-1 axis at position axis.
expand_dims(x, axis) ==
    IF axis > Len(x.shape) THEN Err("insertion index out of bounds")
    ELSE Ok(Arr(InsertAt(x.shape, axis, 1), x.data))

----------------------------------------------------------------------------
\* compute of the gradient reducer and of the gradient expander.

Min(a, b) == IF a < b THEN a ELSE b

None == [some |-> FALSE, arr |-> NoArr]
Some(a) == [some |-> TRUE, arr |-> a]

\* The loop "for (i, (x_axis, gy_axis)) in x_shape.iter().zip(gy_shape)
\* .enumerate()" from 0-based step i on: the zip pairs the axes from the
\* leading one and ends with the shorter shape.
RECURSIVE ReduceLoop(_, _, _, _, _)
ReduceLoop(i, x_shape, gy, x_is_scalar, folded) ==
    IF i >= Min(Len(x_shape), Len(gy.shape))
    THEN [panic |-> "", folded |-> folded]
    ELSE LET x_axis == x_shape[i + 1]
             gy_axis == gy.shape[i + 1]
             axis == IF x_is_scalar THEN 0 ELSE i
             ret == FoldAxis(IF folded.some THEN folded.arr ELSE gy, axis)
             kept == IF x_is_scalar \/ ret.panic # "" THEN ret
                     ELSE expand_dims(ret.arr, i)
         IN  IF x_axis < gy_axis
             THEN IF x_axis = 1
                  THEN IF kept.panic # ""
                       THEN [panic |-> kept.panic, folded |-> folded]
                       ELSE ReduceLoop(i + 1, x_shape, gy, x_is_scalar, Some(kept.arr))
                  ELSE [panic |-> "Incorrect gradient shape", folded |-> folded]
             ELSE ReduceLoop(i + 1, x_shape, gy, x_is_scalar, folded)

\* PreprocessBinOpGrad::compute on inputs [gy, target_shape].
PreprocessBinOpGrad_compute(gy, in1) ==
    LET x_shape_ == as_shape(in1)
        gy_shape == gy.shape
        x_is_scalar == is_scalar_shape(x_shape_)
        x_shape == IF x_is_scalar THEN [i \in 1..Len(gy_shape) |-> 1] ELSE x_shape_
        r == ReduceLoop(0, x_shape, gy, x_is_scalar, None)
    IN  IF x_shape_ = gy_shape THEN Output(gy)
        ELSE IF r.panic # "" THEN Panic(r.panic)
        ELSE IF ~r.folded.some THEN Panic("called Option::unwrap() on a None value")
        ELSE Output(r.folded.arr)

\* The loop "for &axis in target_shape.iter() { gy = expand_dims_view(gy,
\* axis) }" from 1-based step j on.
RECURSIVE ExpandLoop(_, _, _)
ExpandLoop(gy, target_shape, j) ==
    IF j > Len(target_shape) THEN Ok(gy)
    ELSE LET e == expand_dims(gy, target_shape[j])
         IN  IF e.panic # "" THEN e ELSE ExpandLoop(e.arr, target_shape, j + 1)

\* PreprocessBinOpGradGrad::compute on inputs [gy, target_shape].
PreprocessBinOpGradGrad_compute(gy, in1) ==
    LET target_shape == as_shape(in1)
        gy_is_scalar == is_scalar_shape(gy.shape)
        g == IF gy_is_scalar THEN ExpandLoop(gy, target_shape, 1) ELSE Ok(gy)
    IN  IF gy.shape = target_shape THEN Output(gy)
        ELSE IF g.panic # "" THEN Panic(g.panic)
        ELSE IF CanBroadcastTo(g.arr.shape, target_shape)
             THEN Output(BroadcastTo(g.arr, target_shape))
             ELSE Panic("Cant't broadcast.")

----------------------------------------------------------------------------
\* compute of the four forward operators.

\* impl_bin_op_forward!: add_forward (bin_op "+") and mul_forward ("*").
bin_op_forward(bin_op, x0, x1, l) ==
    LET shape0 == x0.shape
        shape1 == x1.shape
        x0_is_scalar == shape0 = <<>> \/ shape0 = <<0>>
        x1_is_scalar == shape1 = <<>> \/ shape1 = <<0>>
        len0 == Prod(shape0)
        len1 == Prod(shape1)
    IN  IF x0_is_scalar /\ ~x1_is_scalar
        THEN IF IndexEmpty(x0).panic # "" THEN IndexEmpty(x0)
             ELSE Ok(MapRight(bin_op, x1, x0.data[1]))
        ELSE IF x1_is_scalar /\ ~x0_is_scalar
        THEN IF IndexEmpty(x1).panic # "" THEN IndexEmpty(x1)
             ELSE Ok(MapRight(bin_op, x0, x1.data[1]))
        ELSE IF ~x0_is_scalar /\ ~x1_is_scalar
        THEN IF len0 > len1 THEN ArrBinOp(bin_op, x0, x1, l)
             ELSE ArrBinOp(bin_op, x1, x0, l)
        ELSE ArrBinOp(bin_op, x0, x1, l)

Deposit(r) == IF r.panic # "" THEN Panic(r.panic) ELSE Output(r.arr)

AddOp_compute(x0, x1, l) == Deposit(bin_op_forward("+", x0, x1, l))

MulOp_compute(x0, x1, l) == Deposit(bin_op_forward("*", x0, x1, l))

\* SubOp::compute with the operands of the scalar fast path exchanged.
SubOp_compute_swapped(x0, x1, l) ==
    IF x0.shape = <<>>
    THEN Output(MapRight("-", x1, x0.data[1]))
    ELSE Deposit(ArrBinOp("-", x0, x1, l))

SubOp_compute(x0, x1, l) ==
    IF x0.shape = <<>>
    THEN Output(MapLeft("-", x0.data[1], x1))
    ELSE Deposit(ArrBinOp("-", x0, x1, l))

DivOp_compute(x0, x1, l) ==
    LET shape0 == x0.shape
        shape1 == x1.shape
        is_scalar0 == shape0 = <<>> \/ shape0 = <<0>>
        is_scalar1 == shape1 = <<>> \/ shape1 = <<1>>
    IN  IF is_scalar0
        THEN IF IndexEmpty(x0).panic # "" THEN Panic(IndexEmpty(x0).panic)
             ELSE Output(MapLeft("/", x0.data[1], x1))
        ELSE IF is_scalar1
        THEN IF IndexEmpty(x1).panic # "" THEN Panic(IndexEmpty(x1).panic)
             ELSE Output(MapRight("*", x0, RDiv(One, x1.data[1])))
        ELSE Deposit(ArrBinOp("/", x0, x1, l))

----------------------------------------------------------------------------
\* The graph and the grad steps.  A node is [op, inputs, shape, arg]:
\* inputs are node ids (positions in graph), shape is the id of the declared
\* shape node or 0, arg is the exponent of a Pow node and 0 otherwise.
\* An input gradient is a node id, or 0 for None.

NoGrad == 0

Node(op, inputs, shape, arg) ==
    [op |-> op, inputs |-> inputs, shape |-> shape, arg |-> arg]

\* Tensor::builder().set_ro_inputs(inputs).set_shape(shape).build(g, op):
\* the graph with the new node, and the new node's id.
Build(g, op, inputs, shape, arg) ==
    [g |-> Append(g, Node(op, inputs, shape, arg)), id |-> Len(g) + 1]

\* Graph::shape(x): the declared shape node of x, or a new Shape node.
g_shape(g, x) ==
    IF g[x].shape # 0 THEN [g |-> g, id |-> g[x].shape]
    ELSE Build(g, "Shape", <<x>>, 0, 0)

\* Graph::neg, Graph::pow and the operators *, / on tensors.
g_neg(g, x) == Build(g, "Neg", <<x>>, 0, 0)
g_pow(g, x, a) == Build(g, "Pow", <<x>>, 0, a)
g_mul(g, a, b) == Build(g, "MulOp", <<a, b>>, 0, 0)
g_div(g, a, b) == Build(g, "DivOp", <<a, b>>, 0, 0)

\* preprocess_gy with shape0 given to both reducers.
preprocess_gy_shape0_twice(g, shape0, shape1, gy) ==
    LET gy0 == Build(g, "PreprocessBinOpGrad", <<gy, shape0>>, shape0, 0)
        gy1 == Build(gy0.g, "PreprocessBinOpGrad", <<gy, shape0>>, shape0, 0)
    IN  [g |-> gy1.g, gy0 |-> gy0.id, gy1 |-> gy1.id]

preprocess_gy(g, shape0, shape1, gy) ==
    LET gy0 == Build(g, "PreprocessBinOpGrad", <<gy, shape0>>, shape0, 0)
        gy1 == Build(gy0.g, "PreprocessBinOpGrad", <<gy, shape1>>, shape1, 0)
    IN  [g |-> gy1.g, gy0 |-> gy0.id, gy1 |-> gy1.id]

\* The common head of the four binary grad steps: the two shape nodes and
\* preprocess_gy on them.
ReducedPair(g, n, gy) ==
    LET shape0 == g_shape(g, g[n].inputs[1])
        shape1 == g_shape(shape0.g, g[n].inputs[2])
    IN  preprocess_gy(shape1.g, shape0.id, shape1.id, gy)

\* Each grad step gives the graph it leaves and the list it passes to
\* set_input_grads.
AddOp_grad(g, n, gy) ==
    LET p == ReducedPair(g, n, gy)
    IN  [g |-> p.g, grads |-> <<p.gy0, p.gy1>>]

SubOp_grad(g, n, gy) ==
    LET p == ReducedPair(g, n, gy)
        m == g_neg(p.g, p.gy1)
    IN  [g |-> m.g, grads |-> <<p.gy0, m.id>>]

MulOp_grad(g, n, gy) ==
    LET x0 == g[n].inputs[1]
        x1 == g[n].inputs[2]
        p == ReducedPair(g, n, gy)
        a == g_mul(p.g, p.gy0, x1)
        b == g_mul(a.g, p.gy1, x0)
    IN  [g |-> b.g, grads |-> <<a.id, b.id>>]

DivOp_grad(g, n, gy) ==
    LET x0 == g[n].inputs[1]
        x1 == g[n].inputs[2]
        p == ReducedPair(g, n, gy)
        a == g_div(p.g, p.gy0, x1)
        ng == g_neg(a.g, x0)
        pw == g_pow(ng.g, x1, -2)
        m == g_mul(pw.g, ng.id, pw.id)
        b == g_mul(m.g, m.id, p.gy1)
    IN  [g |-> b.g, grads |-> <<a.id, b.id>>]

PreprocessBinOpGrad_grad(g, n, gy) ==
    LET gx == Build(g, "PreprocessBinOpGradGrad", <<gy, g[n].inputs[2]>>, 0, 0)
    IN  [g |-> gx.g, grads |-> <<gx.id, NoGrad>>]

PreprocessBinOpGradGrad_grad(g, n, gy) ==
    LET gx == Build(g, "PreprocessBinOpGrad", <<g[n].inputs[1], gy>>, 0, 0)
    IN  [g |-> gx.g, grads |-> <<gx.id, NoGrad>>]

----------------------------------------------------------------------------
\* Inputs.

Shapes == UNION {[1..n -> 0..MaxDim] : n \in 0..MaxRank}

Fills == {"ones", "iota"}

\* The array of shape s filled with 1, or with 2, 3, 4, ... in row-major
\* order.
Fill(s, f) == Arr(s, [k \in 1..Prod(s) |-> IF f = "ones" THEN One ELSE R(k + 1)])

Arrays == {Fill(s, f) : s \in Shapes, f \in Fills}

BinOps == {"AddOp", "SubOp", "MulOp", "DivOp"}

----------------------------------------------------------------------------
\* The state machine.

Ctx(op, inputs, r) ==
    [op |-> op, inputs |-> inputs, outputs |-> r.outputs, panic |-> r.panic]

NoCtx == [op |-> "none", inputs |-> <<>>, outputs |-> <<>>, panic |-> ""]

\* before is the graph the grad call was given.
NoGc == [node |-> 0, output_grad |-> 0, before |-> <<>>, input_grads |-> <<>>,
         set_calls |-> 0]

\* The graph holds the placeholders x0, x1 and gy (nodes 1, 2, 3).
Init ==
    /\ lib \in {"one_sided", "co_broadcast"}
    /\ cc = NoCtx
    /\ upstream = NoCtx
    /\ graph = <<Node("Placeholder", <<>>, 0, 0), Node("Placeholder", <<>>, 0, 0),
                 Node("Placeholder", <<>>, 0, 0)>>
    /\ gc = NoGc
    /\ ngrads = 0

\* --- the compute protocol: the evaluator makes a compute context with the
\* inputs and calls the operator's compute on it once.  It feeds the inputs
\* itself, or passes a reducer's output on to an expander whose target is
\* the shape the gradient had before its reduction.

Compute(op, x0, x1, r) ==
    /\ cc' = Ctx(op, <<x0, x1>>, r)
    /\ UNCHANGED <<lib, upstream, graph, gc, ngrads>>

ComputeAdd ==
    /\ cc = NoCtx
    /\ \E x0, x1 \in Arrays : Compute("AddOp", x0, x1, AddOp_compute(x0, x1, lib))

ComputeSub ==
    /\ cc = NoCtx
    /\ \E x0, x1 \in Arrays : Compute("SubOp", x0, x1, SubOp_compute(x0, x1, lib))

ComputeMul ==
    /\ cc = NoCtx
    /\ \E x0, x1 \in Arrays : Compute("MulOp", x0, x1, MulOp_compute(x0, x1, lib))

ComputeDiv ==
    /\ cc = NoCtx
    /\ \E x0, x1 \in Arrays : Compute("DivOp", x0, x1, DivOp_compute(x0, x1, lib))

ComputeReduce ==
    /\ cc = NoCtx
    /\ \E gy \in Arrays, x_shape \in Shapes :
           Compute("PreprocessBinOpGrad", gy, ShapeArr(x_shape),
                   PreprocessBinOpGrad_compute(gy, ShapeArr(x_shape)))

ComputeExpand ==
    /\ cc = NoCtx
    /\ \E gy \in Arrays, target_shape \in Shapes :
           Compute("PreprocessBinOpGradGrad", gy, ShapeArr(target_shape),
                   PreprocessBinOpGradGrad_compute(gy, ShapeArr(target_shape)))

ExpandReduced ==
    /\ cc.op = "PreprocessBinOpGrad"
    /\ cc.outputs # <<>>
    /\ upstream = NoCtx
    /\ LET gy == cc.outputs[1]
           target == ShapeArr(cc.inputs[1].shape)
       IN  cc' = Ctx("PreprocessBinOpGradGrad", <<gy, target>>,
                     PreprocessBinOpGradGrad_compute(gy, target))
    /\ upstream' = cc
    /\ UNCHANGED <<lib, graph, gc, ngrads>>

Next ==
    \/ ComputeAdd
    \/ ComputeSub
    \/ ComputeMul
    \/ ComputeDiv
    \/ ComputeReduce
    \/ ComputeExpand
    \/ ExpandReduced

Spec == Init /\ [][Next]_vars

\* --- the build protocol: the forward node over x0 and x1 is built first,
\* then grad steps run on nodes of the graph, each with a placeholder as
\* output gradient.

Seeds == {i \in DOMAIN graph : graph[i].op = "Placeholder"}

BuildForward ==
    /\ Len(graph) = 3
    /\ \E op \in BinOps : graph' = Build(graph, op, <<1, 2>>, 0, 0).g
    /\ UNCHANGED <<lib, cc, upstream, gc, ngrads>>

Grad(n, gy, r) ==
    /\ ngrads < MaxGrads
    /\ graph' = r.g
    /\ gc' = [node |-> n, output_grad |-> gy, before |-> graph,
              input_grads |-> r.grads, set_calls |-> 1]
    /\ ngrads' = ngrads + 1
    /\ UNCHANGED <<lib, cc, upstream>>

GradAdd ==
    \E n \in DOMAIN graph, gy \in Seeds :
        graph[n].op = "AddOp" /\ Grad(n, gy, AddOp_grad(graph, n, gy))

GradSub ==
    \E n \in DOMAIN graph, gy \in Seeds :
        graph[n].op = "SubOp" /\ Grad(n, gy, SubOp_grad(graph, n, gy))

GradMul ==
    \E n \in DOMAIN graph, gy \in Seeds :
        graph[n].op = "MulOp" /\ Grad(n, gy, MulOp_grad(graph, n, gy))

GradDiv ==
    \E n \in DOMAIN graph, gy \in Seeds :
        graph[n].op = "DivOp" /\ Grad(n, gy, DivOp_grad(graph, n, gy))

GradReduce ==
    \E n \in DOMAIN graph, gy \in Seeds :
        /\ graph[n].op = "PreprocessBinOpGrad"
        /\ Grad(n, gy, PreprocessBinOpGrad_grad(graph, n, gy))

GradExpand ==
    \E n \in DOMAIN graph, gy \in Seeds :
        /\ graph[n].op = "PreprocessBinOpGradGrad"
        /\ Grad(n, gy, PreprocessBinOpGradGrad_grad(graph, n, gy))

GradNext ==
    \/ BuildForward
    \/ GradAdd
    \/ GradSub
    \/ GradMul
    \/ GradDiv
    \/ GradReduce
    \/ GradExpand

GradSpec == Init /\ [][GradNext]_vars

----------------------------------------------------------------------------
\* Evaluation of a graph node under a feed of the placeholders: every node
\* is computed by its operator's compute on the values of its inputs.

Value(r) == IF r.panic # "" THEN Err(r.panic) ELSE Ok(r.outputs[1])

Neg_compute(x) == Arr(x.shape, [k \in 1..Len(x.data) |-> RNeg(x.data[k])])

RECURSIVE RPow(_, _)
RPow(x, a) ==
    IF a = 0 THEN One
    ELSE IF a < 0 THEN RDiv(One, RPow(x, -a))
    ELSE RMul(x, RPow(x, a - 1))

Pow_compute(x, a) == Arr(x.shape, [k \in 1..Len(x.data) |-> RPow(x.data[k], a)])

RECURSIVE Eval(_, _, _, _)
Eval(g, n, feed, l) ==
    LET op == g[n].op
        a == Eval(g, g[n].inputs[1], feed, l)
        b == Eval(g, g[n].inputs[2], feed, l)
    IN  IF op = "Placeholder" THEN Ok(feed[n])
        ELSE IF a.panic # "" THEN a
        ELSE IF op = "Shape" THEN Ok(ShapeArr(a.arr.shape))
        ELSE IF op = "Neg" THEN Ok(Neg_compute(a.arr))
        ELSE IF op = "Pow" THEN Ok(Pow_compute(a.arr, g[n].arg))
        ELSE IF b.panic # "" THEN b
        ELSE IF op = "AddOp" THEN Value(AddOp_compute(a.arr, b.arr, l))
        ELSE IF op = "SubOp" THEN Value(SubOp_compute(a.arr, b.arr, l))
        ELSE IF op = "MulOp" THEN Value(MulOp_compute(a.arr, b.arr, l))
        ELSE IF op = "DivOp" THEN Value(DivOp_compute(a.arr, b.arr, l))
        ELSE IF op = "PreprocessBinOpGrad"
        THEN Value(PreprocessBinOpGrad_compute(a.arr, b.arr))
        ELSE Value(PreprocessBinOpGradGrad_compute(a.arr, b.arr))

----------------------------------------------------------------------------
\* Properties.

IsForward == cc.op \in BinOps

\* Every axis of the shape has elements.
NonEmpty(shape) == \A i \in 1..Len(shape) : shape[i] >= 1

\* The latest call is the reducer's compute on inputs fed by the evaluator,
\* a gradient and a target shape that have elements.
IsReduce ==
    /\ cc.op = "PreprocessBinOpGrad"
    /\ upstream = NoCtx
    /\ NonEmpty(cc.inputs[1].shape)
    /\ NonEmpty(as_shape(cc.inputs[2]))
In0 == cc.inputs[1]
In1 == cc.inputs[2]

\* The elementwise result of bin_op on the two operands broadcast to their
\* common shape.
Elementwise(bin_op, x0, x1) ==
    LET to == BroadcastShape(x0.shape, x1.shape)
        a == BroadcastTo(x0, to)
        b == BroadcastTo(x1, to)
    IN  Arr(to, [k \in 1..Prod(to) |-> Apply(bin_op, a.data[k], b.data[k])])

\* The sum of all elements of a.
Total(a) == SumSeq(a.data)

\* gy of shape (m, n) summed over its first axis.
ColumnSums(gy) ==
    LET m == gy.shape[1]
        n == gy.shape[2]
    IN  Arr(<<n>>, [j \in 1..n |-> SumSeq([i \in 1..m |-> gy.data[(i - 1) * n + j]])])

\* C1: for each of Add, Sub, Mul, Div and all broadcast-compatible operand
\* shapes, compute deposits an output whose shape is the broadcast of the
\* two shapes.
C1_ForwardShape ==
    (IsForward /\ Compatible(In0.shape, In1.shape))
        => /\ cc.panic = ""
           /\ Len(cc.outputs) = 1
           /\ cc.outputs[1].shape = BroadcastShape(In0.shape, In1.shape)

\* C2: for every gy and every target shape x_shape that broadcasts to gy's
\* shape, the reducer deposits exactly one output, of shape exactly x_shape.
C2_ReduceShape ==
    (IsReduce /\ CanBroadcastTo(as_shape(In1), In0.shape))
        => /\ Len(cc.outputs) = 1
           /\ cc.outputs[1].shape = as_shape(In1)

\* C3: the reducer aligns the axes from the trailing one: for gy of shape
\* (m, n) and x_shape (n,), the output is the length-n array of the sums of
\* gy's columns.
C3_ReduceTrailing ==
    (/\ IsReduce
     /\ Len(In0.shape) = 2
     /\ as_shape(In1) = <<In0.shape[2]>>)
        => cc.outputs = <<ColumnSums(In0)>>

\* C4: with the scalar target shape [] and a gy of any non-scalar shape,
\* the reducer yields the single value that is the sum of all elements of
\* gy.
C4_ReduceToScalar ==
    (/\ IsReduce
     /\ as_shape(In1) = <<>>
     /\ In0.shape # <<>>)
        => cc.outputs = <<Arr(<<>>, <<Total(In0)>>)>>

\* C5: when a target axis size exceeds the corresponding gradient axis
\* size, the reducer panics with "Incorrect gradient shape" and deposits no
\* output.
C5_ReduceRejects ==
    (/\ IsReduce
     /\ Len(as_shape(In1)) = Len(In0.shape)
     /\ \E i \in 1..Len(In0.shape) : as_shape(In1)[i] > In0.shape[i])
        => /\ cc.panic = "Incorrect gradient shape"
           /\ cc.outputs = <<>>

\* C6: for a broadcast-compatible pair (x_shape, out_shape) and a gy of
\* shape out_shape, reducing gy to x_shape and expanding the result to
\* out_shape completes without a panic and gives an array of shape
\* out_shape.
C6_RoundTripShape ==
    /\ (IsReduce /\ CanBroadcastTo(as_shape(In1), In0.shape)) => cc.panic = ""
    /\ (/\ cc.op = "PreprocessBinOpGradGrad"
        /\ upstream # NoCtx
        /\ NonEmpty(upstream.inputs[1].shape)
        /\ NonEmpty(as_shape(upstream.inputs[2]))
        /\ CanBroadcastTo(as_shape(upstream.inputs[2]), upstream.inputs[1].shape))
           => /\ cc.panic = ""
              /\ Len(cc.outputs) = 1
              /\ cc.outputs[1].shape = upstream.inputs[1].shape

\* C8: Sub and Div keep the operand order on the scalar fast paths and on
\* the general path: each output element is the element of x0 minus,
\* respectively divided by, the corresponding element of x1.
C8_OperandOrder ==
    (/\ cc.op \in {"SubOp", "DivOp"}
     /\ Compatible(In0.shape, In1.shape)
     /\ cc.panic = "")
        => cc.outputs = <<Elementwise(IF cc.op = "SubOp" THEN "-" ELSE "/", In0, In1)>>

\* C8 witness: Sub took the scalar fast path on x0 = 2 and x1 of shape
\* (2, 3) filled with 1, and every output element is 2 - 1.
C8_Witness ==
    /\ cc.op = "SubOp"
    /\ In0 = Fill(<<>>, "iota")
    /\ In1 = Fill(<<2, 3>>, "ones")
    /\ cc.outputs = <<Fill(<<2, 3>>, "ones")>>

\* The latest grad call: its node, the node's two inputs, the output
\* gradient it was given, and the ids of the nodes it built.
GNode == gc.before[gc.node]
GX0 == GNode.inputs[1]
GX1 == GNode.inputs[2]
Built == (Len(gc.before) + 1)..Len(graph)
Reducers == {i \in Built : graph[i].op = "PreprocessBinOpGrad"}

IsNode(i, op, inputs) == i \in Built /\ graph[i].op = op /\ graph[i].inputs = inputs

\* Node s is the shape node of x: the shape node x was declared with, or
\* else a new Shape node over x.
IsShapeOf(s, x) ==
    IF gc.before[x].shape # 0 THEN s = gc.before[x].shape
    ELSE IsNode(s, "Shape", <<x>>)

\* r0 and r1 are the reducers of the output gradient to the shapes of x0
\* and x1.
ReducerPair(r0, r1) ==
    /\ Reducers = {r0, r1}
    /\ r0 # r1
    /\ graph[r0].inputs[1] = gc.output_grad
    /\ graph[r1].inputs[1] = gc.output_grad
    /\ Len(graph[r0].inputs) = 2
    /\ Len(graph[r1].inputs) = 2
    /\ IsShapeOf(graph[r0].inputs[2], GX0)
    /\ IsShapeOf(graph[r1].inputs[2], GX1)

\* C7: the grad step of each binary operator only builds nodes: exactly two
\* reducers r0, r1 of the one output gradient, to the shape nodes of x0 and
\* of x1, and it registers Add (r0, r1); Sub (r0, neg(r1)); Mul (r0*x1,
\* r1*x0); Div (r0/x1, neg(x0)*pow(x1,-2)*r1), every combination a new node.
C7_BinaryGradWiring ==
    (gc.node # 0 /\ GNode.op \in BinOps)
        => /\ SubSeq(graph, 1, Len(gc.before)) = gc.before
           /\ gc.set_calls = 1
           /\ Len(gc.input_grads) = 2
           /\ \E r0, r1 \in Built :
                  /\ ReducerPair(r0, r1)
                  /\ LET g0 == gc.input_grads[1]
                         g1 == gc.input_grads[2]
                     IN  CASE GNode.op = "AddOp" -> g0 = r0 /\ g1 = r1
                           [] GNode.op = "SubOp" ->
                                  g0 = r0 /\ IsNode(g1, "Neg", <<r1>>)
                           [] GNode.op = "MulOp" ->
                                  /\ IsNode(g0, "MulOp", <<r0, GX1>>)
                                  /\ IsNode(g1, "MulOp", <<r1, GX0>>)
                           [] GNode.op = "DivOp" ->
                                  /\ IsNode(g0, "DivOp", <<r0, GX1>>)
                                  /\ \E m, ng, pw \in Built :
                                         /\ IsNode(g1, "MulOp", <<m, r1>>)
                                         /\ IsNode(m, "MulOp", <<ng, pw>>)
                                         /\ IsNode(ng, "Neg", <<GX0>>)
                                         /\ IsNode(pw, "Pow", <<GX1>>)
                                         /\ graph[pw].arg = -2

\* C7 witness: grad of Div(x0, x1) has run, built nine nodes and registered
\* two gradients.
C7_Witness ==
    /\ gc.node # 0
    /\ GNode.op = "DivOp"
    /\ GNode.inputs = <<1, 2>>
    /\ Cardinality(Built) = 9
    /\ Len(gc.input_grads) = 2

\* C9: the grad step of the reducer and of the expander calls
\* set_input_grads once with two entries: a new node of the other kind whose
\* first input is the incoming output gradient and whose second input is a
\* shape descriptor, and the no-gradient marker.
C9_SymmetricPair ==
    (gc.node # 0 /\ GNode.op \in {"PreprocessBinOpGrad", "PreprocessBinOpGradGrad"})
        => /\ gc.set_calls = 1
           /\ Len(gc.input_grads) = 2
           /\ gc.input_grads[2] = NoGrad
           /\ LET gx == gc.input_grads[1]
              IN  /\ gx \in Built
                  /\ graph[gx].op = IF GNode.op = "PreprocessBinOpGrad"
                                    THEN "PreprocessBinOpGradGrad"
                                    ELSE "PreprocessBinOpGrad"
                  /\ Len(graph[gx].inputs) = 2
                  /\ graph[gx].inputs[1] = gc.output_grad
                  /\ graph[graph[gx].inputs[2]].op = "Shape"

\* The feed that gives x0 and x1 the shapes s0 and s1 and the output
\* gradient the shape of the forward output, filled with 1.
FeedOf(s0, s1) ==
    [i \in 1..3 |-> IF i = 1 THEN Fill(s0, "iota")
                    ELSE IF i = 2 THEN Fill(s1, "iota")
                    ELSE Fill(BroadcastShape(s0, s1), "ones")]

\* C10: for Mul and Div on operands of different broadcast-compatible
\* shapes, the gradient node registered for each operand, evaluated with an
\* output gradient of the forward output's shape, yields an array of that
\* operand's own shape.
C10_GradShape ==
    (/\ gc.node # 0
     /\ GNode.op \in {"MulOp", "DivOp"}
     /\ GNode.inputs = <<1, 2>>
     /\ gc.output_grad = 3)
        => \A s0, s1 \in Shapes :
               (NonEmpty(s0) /\ NonEmpty(s1) /\ s0 # s1 /\ Compatible(s0, s1))
                   => LET g0 == Eval(graph, gc.input_grads[1], FeedOf(s0, s1), lib)
                          g1 == Eval(graph, gc.input_grads[2], FeedOf(s0, s1), lib)
                      IN  /\ g0.panic = ""
                          /\ g0.arr.shape = s0
                          /\ g1.panic = ""
                          /\ g1.arr.shape = s1

====
